---- MODULE Spec2Model ----
(***************************************************************************)
(* One POST /parse-file request of netlify/functions/api.js: decoding the  *)
(* upload, the column-mapping inference call, transformData with its       *)
(* product-column inference call and its concurrent per-row HS-code        *)
(* lookups, and the response.                                              *)
(*                                                                         *)
(* JavaScript strings that the code inspects character by character        *)
(* (trim, truthiness) are sequences of one-character strings; names that   *)
(* are only compared (headers, target fields, messages) are TLA+ strings.  *)
(***************************************************************************)
EXTENDS Integers, Sequences, FiniteSets

\* Largest number of decoded rows of an upload.
MaxRows == 2

-----------------------------------------------------------------------------
(* Values *)

\* A spreadsheet or CSV cell: a string or a number, v its characters/digits.
Str(s) == [t |-> "str", v |-> s]
Num(s) == [t |-> "num", v |-> s]

\* JavaScript truthiness of a cell: "" and 0 are falsy.
Truthy(c) == IF c.t = "num" THEN c.v # <<"0">> ELSE c.v # <<>>

\* value.toString(): the characters of a string, the digits of a number.
ToString(c) == c.v

RECURSIVE TrimStart(_)
TrimStart(s) == IF s # <<>> /\ Head(s) = " " THEN TrimStart(Tail(s)) ELSE s

RECURSIVE TrimEnd(_)
TrimEnd(s) ==
  IF s # <<>> /\ s[Len(s)] = " " THEN TrimEnd(SubSeq(s, 1, Len(s) - 1)) ELSE s

\* String.prototype.trim
Trim(s) == TrimEnd(TrimStart(s))

-----------------------------------------------------------------------------
(* The fixed target schema *)

targetFields ==
  << "IEW number", "Sender type", "Sender full name", "Sender contact name",
     "Sender phones", "Sender email", "Sender postcode", "Sender country",
     "Sender region", "Sender city", "Sender address", "street", "house",
     "appartment", "Cost (TOP)", "Currency (TOP)", "Receiver type",
     "Receiver full name", "Receiver contact name", "Receiver phones",
     "Receiver email", "Receiver postcode", "Receiver country",
     "Receiver region", "Receiver city", "Receiver address", "street",
     "house", "appartment", "IOSS number", "Incoterms", "Invoice description",
     "Full description", "Place description", "Actual weight, kg",
     "Related order", "Receiver postcode", "Receiver country",
     "Receiver region", "Receiver city", "Receiver address" >>

\* targetFields.map(field => field.name)
targetFieldNames == targetFields

\* The keys of the template object: one per distinct name.
TemplateKeys == {targetFieldNames[i] : i \in DOMAIN targetFieldNames}

\* const template = {}; every target field set to ''.
Template == [f \in TemplateKeys |-> <<>>]

HSKey == "HS_Code"

-----------------------------------------------------------------------------
(* Inputs: what the decoders and the external services can hand back *)

\* The columns of the uploaded table, in column order.
HeaderOrder == << "Name", "Qty" >>
Headers == {HeaderOrder[i] : i \in DOMAIN HeaderOrder}

\* csv-parse (columns: true, trim: true): every row has every column, every
\* cell is a trimmed string.
CsvRows ==
  { [h \in Headers |-> IF h = "Name" THEN n ELSE q] :
      n \in {Str(<<>>), Str(<<"a">>)}, q \in {Str(<<>>), Str(<<"5">>)} }

\* XLSX.utils.sheet_to_json: empty cells are left out of the row object,
\* blank rows are skipped, cells keep their type and their whitespace.
XlsxCells(h) ==
  IF h = "Name" THEN {Str(<<" ", "b", " ">>)}
  ELSE {Num(<<"0">>), Num(<<"7">>)}

XlsxRows ==
  UNION { { r \in [D -> UNION {XlsxCells(h) : h \in Headers}] :
              \A h \in D : r[h] \in XlsxCells(h) } :
          D \in (SUBSET Headers) \ {{}} }

\* The sequences over S of length at most n.
RECURSIVE SeqsUpTo(_, _)
SeqsUpTo(S, n) ==
  IF n = 0 THEN {<<>>}
  ELSE LET shorter == SeqsUpTo(S, n - 1)
       IN  shorter \cup {Append(s, x) : s \in {t \in shorter : Len(t) = n - 1}, x \in S}

\* Every dataset a decoder can return, the empty one included.
Datasets(rows) == SeqsUpTo(rows, MaxRows)

\* Target names the mapping inference may answer with: a field of the
\* schema and a name that is not in it.
MappingTargets == {"Sender full name", "Quantity"}

\* A parsed mapping object: its [header, target] entries in the order
\* Object.entries walks them, every header at most once.
Mappings ==
  { m \in SeqsUpTo(Headers \X MappingTargets, Len(HeaderOrder)) :
      \A i, j \in DOMAIN m : i # j => m[i][1] # m[j][1] }

\* Messages an exception raised inside an inference call can carry.
InferenceErrors == {"Connection error.", "Unexpected token < in JSON"}

\* productColumn when the model answers {"productColumn": null}.
Null == "<null>"

\* What the product-column inference can end with: an exception, content
\* JSON.parse rejects, the JSON literal null, or an object whose
\* productColumn is null or the header of the first column.
ProductReplies ==
  [kind : {"throws"}, column : {Null}] \cup
  [kind : {"unparsable"}, column : {Null}] \cup
  [kind : {"jsonNull"}, column : {Null}] \cup
  [kind : {"object"}, column : {HeaderOrder[1], Null}]

\* What the HS-code service can answer. status 0 stands for a transport
\* error (no response at all); hasData is the truthiness of
\* the axios response's data, hasInner whether data.data is an object, hsCode its hsCode
\* property (<<>> when absent or empty).
LookupReplies ==
  { [status |-> 200, hasData |-> TRUE,  hasInner |-> TRUE,  hsCode |-> <<"8", "5">>],
    [status |-> 200, hasData |-> TRUE,  hasInner |-> TRUE,  hsCode |-> <<>>],
    [status |-> 200, hasData |-> TRUE,  hasInner |-> FALSE, hsCode |-> <<>>],
    [status |-> 200, hasData |-> FALSE, hasInner |-> FALSE, hsCode |-> <<>>],
    [status |-> 404, hasData |-> TRUE,  hasInner |-> FALSE, hsCode |-> <<>>],
    [status |-> 400, hasData |-> TRUE,  hasInner |-> FALSE, hsCode |-> <<>>],
    [status |-> 503, hasData |-> TRUE,  hasInner |-> FALSE, hsCode |-> <<>>],
    [status |-> 0,   hasData |-> FALSE, hasInner |-> FALSE, hsCode |-> <<>>] }

\* The lookup failed: no response, or a response with status >= 400.
LookupFailed(reply) == reply.status = 0 \/ reply.status >= 400

\* What is remembered of a finished lookup: whether it failed, and the code
\* the service's answer carried.
Outcome(reply) ==
  [ended |-> IF LookupFailed(reply) THEN "failed" ELSE "ok",
   served |-> IF reply.hasInner THEN reply.hsCode ELSE <<>>]

NoOutcome == [ended |-> "none", served |-> <<>>]

-----------------------------------------------------------------------------
(* The pure parts of getHSCode and transformData *)

\* What the axios call does with a reply: validateStatus rejects statuses
\* outside 200..499, a transport error rejects too.
AxiosThrows(reply) == reply.status = 0 \/ ~(reply.status >= 200 /\ reply.status < 500)

\* getHSCode: the code it resolves to for a reply of the service.
getHSCode(reply) ==
  IF AxiosThrows(reply) THEN <<>>                        \* catch: return ''
  ELSE IF reply.status = 404 \/ ~reply.hasData \/ reply.status >= 400 THEN <<>>
  ELSE IF ~reply.hasInner THEN <<>>                      \* TypeError, caught
  ELSE reply.hsCode                                      \* hsCode || ''

\* Object.entries(row): the row's [column, value] pairs in column order.
Entries(row) ==
  LET cols == SelectSeq(HeaderOrder, LAMBDA h : h \in DOMAIN row)
  IN  [i \in DOMAIN cols |-> <<cols[i], row[cols[i]]>>]

\* Object.keys(data[0])
Keys(row) == [i \in DOMAIN Entries(row) |-> Entries(row)[i][1]]

\* An inversion that keeps the first header mapped to a target field.
RECURSIVE ReverseMappingFirstWins(_)
ReverseMappingFirstWins(m) ==
  IF m = <<>> THEN [k \in {} |-> ""]
  ELSE LET after == ReverseMappingFirstWins(Tail(m))
           oldKey == m[1][1]
           newKey == m[1][2]
       IN  [k \in DOMAIN after \cup {newKey} |->
              IF k = newKey THEN oldKey ELSE after[k]]

\* for (const [oldKey, newKey] of Object.entries(mapping))
\*   reverseMapping[newKey] = oldKey;
RECURSIVE ReverseMappingOf(_)
ReverseMappingOf(m) ==
  IF m = <<>> THEN [k \in {} |-> ""]
  ELSE LET before == ReverseMappingOf(SubSeq(m, 1, Len(m) - 1))
           oldKey == m[Len(m)][1]
           newKey == m[Len(m)][2]
       IN  [k \in DOMAIN before \cup {newKey} |->
              IF k = newKey THEN oldKey ELSE before[k]]

\* A row callback that starts from {} instead of a copy of the template.
MapFieldsMappedOnly(row, rm) ==
  [f \in {g \in DOMAIN Template : g \in DOMAIN rm /\ rm[g] \in DOMAIN row} |->
     Trim(ToString(row[rm[f]]))]

\* The field-copy loop of the row callback: newRow = {...template}, then
\* every target field with a reverse-mapping entry and a defined source
\* cell takes the cell, stringified and trimmed.
MapFields(row, rm) ==
  [f \in DOMAIN Template |->
     IF /\ f \in DOMAIN rm
        /\ rm[f] # ""
        /\ rm[f] \in DOMAIN row
     THEN Trim(ToString(row[rm[f]]))
     ELSE Template[f]]

\* newRow['HS_Code'] = hsCode || ''
WithHSCode(newRow, code) ==
  [k \in DOMAIN newRow \cup {HSKey} |-> IF k = HSKey THEN code ELSE newRow[k]]

\* if (productColumn && row[productColumn])
NeedsLookup(row, column) ==
  column # Null /\ column # "" /\ column \in DOMAIN row /\ Truthy(row[column])

\* new Set(Object.keys(mapping))
MappedSourceColumns(m) == {m[i][1] : i \in DOMAIN m}

\* Every [column, value] pair of the dataset, rows in order, columns in
\* column order within a row: the order both data.forEach loops walk.
RECURSIVE AllEntries(_)
AllEntries(d) ==
  IF d = <<>> THEN <<>> ELSE Entries(Head(d)) \o AllEntries(Tail(d))

\* The same test without its truthiness half.
IsUnmappedAnyValue(entry, m) == entry[1] \notin MappedSourceColumns(m)

\* if (!mappedSourceColumns.has(columnName) && value)
IsUnmapped(entry, m) == entry[1] \notin MappedSourceColumns(m) /\ Truthy(entry[2])

\* An array push where the code adds to a Set.
ArrayPush(set, x) == Append(set, x)

\* Set.prototype.add on a Set kept in insertion order.
SetAdd(set, x) == IF \E i \in DOMAIN set : set[i] = x THEN set ELSE Append(set, x)

\* uniqueUnmappedColumns after the first data.forEach.
RECURSIVE CollectUnique(_, _, _)
CollectUnique(entries, m, set) ==
  IF entries = <<>> THEN set
  ELSE CollectUnique(Tail(entries), m,
         IF IsUnmapped(Head(entries), m) THEN SetAdd(set, Head(entries)[1]) ELSE set)

UniqueUnmappedColumns(d, m) == CollectUnique(AllEntries(d), m, <<>>)

\* `unmappedColumn${index + 1}`
Alias(index) == <<"unmappedColumn", index + 1>>

\* columnRenameMap: Array.from(uniqueUnmappedColumns).forEach((columnName, index) => ...)
ColumnRenameMap(d, m) ==
  LET unique == UniqueUnmappedColumns(d, m)
  IN  [c \in {unique[i] : i \in DOMAIN unique} |->
         LET at == {i \in DOMAIN unique : unique[i] = c}
             last == CHOOSE i \in at : \A j \in at : j <= i
         IN  Alias(last - 1)]

\* unmappedColumns after the second data.forEach: one { [alias]: value }
\* object per unmapped truthy cell.
UnmappedColumns(d, m) ==
  LET renameMap == ColumnRenameMap(d, m)
      kept == SelectSeq(AllEntries(d), LAMBDA e : IsUnmapped(e, m))
  IN  [i \in DOMAIN kept |-> [key |-> renameMap[kept[i][1]], value |-> kept[i][2]]]

-----------------------------------------------------------------------------
(* The request *)

VARIABLES
  pc,              \* where the handler is: "received", "awaitMapping",
                   \* "awaitProduct", "awaitLookups", "responded", "crashed"
  file,            \* the upload: "none", "csv", "xlsx" or "other"
  decoded,         \* how decoding ended: "no", "rows", "empty" or "error"
  data,            \* the decoded rows
  headers,         \* Object.keys(data[0])
  mapping,         \* the column mapping the inference returned
  thrown,          \* what went wrong inside the two inference calls
  productColumn,   \* the identified product column, or Null
  reverseMapping,  \* target field -> source header
  transformedData, \* the newRow of every row callback, by row position
  pending,         \* the rows whose lookup is in flight
  lookupOutcome,   \* per row: how its lookup ended and the code it served
  hsCodesColumn,   \* the records pushed by the row callbacks
  columnRenameMap, \* unmapped header -> alias, as transformData built it
  calls,           \* outbound calls issued so far
  returned,        \* transformData has returned
  unmappedColumns, \* the unmappedColumns it returned
  emptyFields,     \* the emptyFields it returned
  response         \* status and error of what the handler sent

vars ==
  << pc, file, decoded, data, headers, mapping, thrown, productColumn,
     reverseMapping, transformedData, pending, lookupOutcome, hsCodesColumn,
     columnRenameMap, calls, returned, unmappedColumns, emptyFields, response >>

\* Error messages of the handler.
ErrNoFile == "File was not uploaded"
ErrUnsupported == "Unsupported file type. Only CSV and XLSX formats are supported."
ErrDecode == "Invalid Record Length"
ErrNoRows == "Cannot convert undefined or null to object"
\* 'Помилка при отриманні маппінгу колонок', transliterated.
ErrMapping == "Pomylka pry otrymanni mapinhu kolonok"
ErrProduct == "Error identifying product name column"

NoResponse == [status |-> 0, error |-> "", hasResult |-> FALSE]

\* res.status(500).json({ error: error.message, details: ... })
Failure(message) == [NoResponse EXCEPT !.status = 500, !.error = message]

\* res.json(...): status 200 and a body.
Success == [status |-> 200, error |-> "", hasResult |-> TRUE]

\* The object transformData returns; its rows, product column and records
\* are the ones the row callbacks left behind.
ret ==
  [returned |-> returned,
   transformedData |-> IF returned THEN transformedData ELSE <<>>,
   unmappedColumns |-> unmappedColumns,
   emptyFields |-> emptyFields,
   productColumn |-> productColumn,
   hsCodesColumn |-> IF returned THEN hsCodesColumn ELSE <<>>]

\* The body of a 200 response:
\* { data: transformedData, unmappedColumns, emptyFields }
body ==
  [data |-> ret.transformedData,
   unmappedColumns |-> ret.unmappedColumns,
   emptyFields |-> ret.emptyFields]

Init ==
  /\ pc = "received"
  /\ file \in {"none", "csv", "xlsx", "other"}
  /\ decoded = "no"
  /\ data = <<>>
  /\ headers = <<>>
  /\ mapping = <<>>
  /\ thrown = [mapping |-> "", product |-> ""]
  /\ productColumn = Null
  /\ reverseMapping = [k \in {} |-> ""]
  /\ transformedData = <<>>
  /\ pending = {}
  /\ lookupOutcome = <<>>
  /\ hsCodesColumn = <<>>
  /\ columnRenameMap = [c \in {} |-> <<>>]
  /\ calls = [mapping |-> 0, product |-> 0, lookups |-> <<>>]
  /\ returned = FALSE
  /\ unmappedColumns = <<>>
  /\ emptyFields = <<>>
  /\ response = NoResponse

\* The handler's catch block: log, answer 500 with the error's message.
Fail(message) ==
  /\ pc' = "responded"
  /\ response' = Failure(message)

\* No file in the request, or a file that is neither .csv nor .xlsx.
RejectUpload ==
  /\ pc = "received"
  /\ file \in {"none", "other"}
  /\ Fail(IF file = "none" THEN ErrNoFile ELSE ErrUnsupported)
  /\ UNCHANGED << file, decoded, data, headers, mapping, thrown, productColumn,
                  reverseMapping, transformedData, pending, lookupOutcome,
                  hsCodesColumn, columnRenameMap, calls, returned, unmappedColumns, emptyFields >>

\* The decoder rejects the buffer.
DecodeFails ==
  /\ pc = "received"
  /\ file \in {"csv", "xlsx"}
  /\ Fail(ErrDecode)
  /\ decoded' = "error"
  /\ UNCHANGED << file, data, headers, mapping, thrown, productColumn,
                  reverseMapping, transformedData, pending, lookupOutcome,
                  hsCodesColumn, columnRenameMap, calls, returned, unmappedColumns, emptyFields >>

\* The decoder returns no rows. parseCSVBuffer's callback reads
\* Object.keys(data[0]) for its log line and throws outside every try, so no
\* response is sent; after parseExcelBuffer the handler's own
\* Object.keys(data[0]) throws inside its try.
DecodeEmpty ==
  /\ pc = "received"
  /\ file \in {"csv", "xlsx"}
  /\ IF file = "csv"
     THEN pc' = "crashed" /\ UNCHANGED response
     ELSE Fail(ErrNoRows)
  /\ decoded' = "empty"
  /\ UNCHANGED << file, data, headers, mapping, thrown, productColumn,
                  reverseMapping, transformedData, pending, lookupOutcome,
                  hsCodesColumn, columnRenameMap, calls, returned, unmappedColumns, emptyFields >>

\* The decoder returns rows; the handler takes the headers of the first
\* row and issues the column-mapping inference call.
Decode ==
  /\ pc = "received"
  /\ file \in {"csv", "xlsx"}
  /\ \E d \in Datasets(IF file = "csv" THEN CsvRows ELSE XlsxRows) \ {<<>>} :
       /\ data' = d
       /\ headers' = Keys(d[1])
  /\ decoded' = "rows"
  /\ calls' = [calls EXCEPT !.mapping = @ + 1]
  /\ pc' = "awaitMapping"
  /\ UNCHANGED << file, mapping, thrown, productColumn, reverseMapping,
                  transformedData, pending, lookupOutcome, hsCodesColumn,
                  columnRenameMap, returned, unmappedColumns, emptyFields, response >>

\* A getColumnMapping whose catch returns {} and lets the request go on.
MappingThrowsSwallowed ==
  /\ pc = "awaitMapping"
  /\ \E message \in InferenceErrors : thrown' = [thrown EXCEPT !.mapping = message]
  /\ mapping' = <<>>
  /\ calls' = [calls EXCEPT !.product = @ + 1]
  /\ pc' = "awaitProduct"
  /\ UNCHANGED << file, decoded, data, headers, productColumn, reverseMapping,
                  transformedData, pending, lookupOutcome, hsCodesColumn,
                  columnRenameMap, returned, unmappedColumns, emptyFields, response >>

\* getColumnMapping's inference call throws, or JSON.parse rejects its
\* content: the catch logs the message and throws a new Error with a fixed
\* message, which the handler's catch answers with.
MappingThrows ==
  /\ pc = "awaitMapping"
  /\ \E message \in InferenceErrors : thrown' = [thrown EXCEPT !.mapping = message]
  /\ Fail(ErrMapping)
  /\ UNCHANGED << file, decoded, data, headers, mapping, productColumn,
                  reverseMapping, transformedData, pending, lookupOutcome,
                  hsCodesColumn, columnRenameMap, calls, returned, unmappedColumns, emptyFields >>

\* getColumnMapping returns the parsed mapping; the handler calls
\* transformData, which issues the product-column inference call.
MappingArrives ==
  /\ pc = "awaitMapping"
  /\ \E m \in Mappings : mapping' = m
  /\ calls' = [calls EXCEPT !.product = @ + 1]
  /\ pc' = "awaitProduct"
  /\ UNCHANGED << file, decoded, data, headers, thrown, productColumn,
                  reverseMapping, transformedData, pending, lookupOutcome,
                  hsCodesColumn, columnRenameMap, returned, unmappedColumns, emptyFields, response >>

\* getProductNameColumn: what it does with the inference's answer. It
\* throws when the call throws, when JSON.parse throws, and when the
\* content is the JSON literal null (result.productColumn of null).
ProductColumnThrows(reply) == reply.kind \in {"throws", "unparsable", "jsonNull"}

\* getProductNameColumn throws: transformData awaits it outside its try, so
\* the rejection reaches the handler's catch.
ProductFails ==
  /\ pc = "awaitProduct"
  /\ \E reply \in ProductReplies :
       /\ ProductColumnThrows(reply)
       /\ thrown' = [thrown EXCEPT !.product = reply.kind]
  /\ Fail(ErrProduct)
  /\ UNCHANGED << file, decoded, data, headers, mapping, productColumn,
                  reverseMapping, transformedData, pending, lookupOutcome,
                  hsCodesColumn, columnRenameMap, calls, returned, unmappedColumns, emptyFields >>

\* The row callbacks whose lookup has been issued, in the order data.map
\* ran them.
LookupsIssued(d, column) ==
  LET rows == SelectSeq([i \in DOMAIN d |-> i], LAMBDA i : NeedsLookup(d[i], column))
  IN  [k \in DOMAIN rows |->
         [productName |-> d[rows[k]][column], rowIndex |-> rows[k] - 1]]

\* getProductNameColumn returns result.productColumn; transformData builds
\* reverseMapping and the template, and data.map runs every row callback
\* up to its first await: the fields are copied, and the rows with a
\* truthy product cell issue their lookup and wait for it.
FanOut ==
  /\ pc = "awaitProduct"
  /\ \E reply \in ProductReplies :
       /\ ~ProductColumnThrows(reply)
       /\ productColumn' = reply.column
  /\ reverseMapping' = ReverseMappingOf(mapping)
  /\ transformedData' = [i \in DOMAIN data |-> MapFields(data[i], reverseMapping')]
  /\ pending' = {i \in DOMAIN data : NeedsLookup(data[i], productColumn')}
  /\ lookupOutcome' = [i \in DOMAIN data |-> NoOutcome]
  /\ calls' = [calls EXCEPT !.lookups = LookupsIssued(data, productColumn')]
  /\ pc' = "awaitLookups"
  /\ UNCHANGED << file, decoded, data, headers, mapping, thrown, hsCodesColumn,
                  columnRenameMap, returned, unmappedColumns, emptyFields, response >>

\* A fan-out that collects the rows as their callbacks finish.
SettleInArrivalOrder(rows, i, newRow) ==
  [k \in DOMAIN rows |->
     IF k < i THEN rows[k] ELSE IF k < Len(rows) THEN rows[k + 1] ELSE newRow]

\* Where the result of row callback i goes: Promise.all keeps the position
\* of the promise, and the callback writes its own newRow.
Settle(rows, i, newRow) == [rows EXCEPT ![i] = newRow]

\* getHSCode without its catch: a rejected axios call rejects the row
\* callback, Promise.all rejects and the handler answers 500.
LookupReplyRethrows ==
  /\ pc = "awaitLookups"
  /\ \E i \in pending, reply \in LookupReplies :
       LET hsCode == getHSCode(reply) IN
       /\ lookupOutcome' = [lookupOutcome EXCEPT ![i] = Outcome(reply)]
       /\ pending' = pending \ {i}
       /\ IF AxiosThrows(reply)
          THEN /\ Fail("Request failed")
               /\ UNCHANGED << transformedData, hsCodesColumn >>
          ELSE /\ transformedData' =
                    Settle(transformedData, i, WithHSCode(transformedData[i], hsCode))
               /\ hsCodesColumn' =
                    Append(hsCodesColumn,
                           [productName |-> data[i][productColumn],
                            hsCode |-> hsCode, rowIndex |-> i - 1])
               /\ UNCHANGED << pc, response >>
  /\ UNCHANGED << file, decoded, data, headers, mapping, thrown,
                  productColumn, reverseMapping, columnRenameMap, calls, returned, unmappedColumns, emptyFields >>

\* The lookup of row i ends, in any order with respect to the others:
\* the callback stores the code in its newRow and pushes its record.
LookupReply ==
  /\ pc = "awaitLookups"
  /\ \E i \in pending, reply \in LookupReplies :
       LET hsCode == getHSCode(reply) IN
       /\ transformedData' =
            Settle(transformedData, i, WithHSCode(transformedData[i], hsCode))
       /\ hsCodesColumn' =
            Append(hsCodesColumn,
                   [productName |-> data[i][productColumn],
                    hsCode |-> hsCode, rowIndex |-> i - 1])
       /\ lookupOutcome' = [lookupOutcome EXCEPT ![i] = Outcome(reply)]
       /\ pending' = pending \ {i}
  /\ UNCHANGED << pc, file, decoded, data, headers, mapping, thrown,
                  productColumn, reverseMapping, columnRenameMap, calls, returned, unmappedColumns, emptyFields,
                  response >>

\* transformData returning without awaiting the row callbacks.
TransformReturnUnjoined ==
  /\ pc = "awaitLookups"
  /\ columnRenameMap' = ColumnRenameMap(data, mapping)
  /\ returned' = TRUE
  /\ unmappedColumns' = UnmappedColumns(data, mapping)
  /\ emptyFields' = targetFieldNames
  /\ response' = Success
  /\ pc' = "responded"
  /\ UNCHANGED << file, decoded, data, headers, mapping, thrown, productColumn,
                  reverseMapping, transformedData, pending, lookupOutcome,
                  hsCodesColumn, calls >>

\* Promise.all resolves once no callback is pending: transformData
\* computes the unmapped columns and returns, and the handler answers 200.
TransformReturn ==
  /\ pc = "awaitLookups"
  /\ pending = {}
  /\ columnRenameMap' = ColumnRenameMap(data, mapping)
  /\ returned' = TRUE
  /\ unmappedColumns' = UnmappedColumns(data, mapping)
  /\ emptyFields' = targetFieldNames
  /\ response' = Success
  /\ pc' = "responded"
  /\ UNCHANGED << file, decoded, data, headers, mapping, thrown, productColumn,
                  reverseMapping, transformedData, pending, lookupOutcome,
                  hsCodesColumn, calls >>

Next ==
  \/ RejectUpload
  \/ DecodeFails
  \/ DecodeEmpty
  \/ Decode
  \/ MappingThrows
  \/ MappingArrives
  \/ ProductFails
  \/ FanOut
  \/ LookupReply
  \/ TransformReturn

Spec == Init /\ [][Next]_vars

-----------------------------------------------------------------------------
(* Properties *)

\* The rows of the dataset whose product cell is truthy.
LookupRows == {i \in DOMAIN data : NeedsLookup(data[i], productColumn)}

\* C1: whatever order the per-row lookups complete in, transformData
\* returns exactly one TargetRow per SourceRow, and the TargetRow at
\* position i is the one built from the SourceRow at position i: its fields
\* are the cells of row i, and its HS_Code is the code row i's own lookup
\* was served.
C1_RowOrderPreserved ==
  ret.returned =>
    /\ Len(ret.transformedData) = Len(data)
    /\ \A i \in DOMAIN data :
         LET target == ret.transformedData[i]
             built == MapFields(data[i], ReverseMappingOf(mapping))
         IN
         /\ \A f \in TemplateKeys : f \in DOMAIN target /\ target[f] = built[f]
         /\ (HSKey \in DOMAIN target) = (i \in LookupRows)
         /\ i \in LookupRows =>
              target[HSKey] = IF lookupOutcome[i].ended = "ok"
                              THEN lookupOutcome[i].served ELSE <<>>

\* Two rows that transform to different TargetRows, both looked up, the
\* second row's lookup finishing first.
C1_Witness ==
  /\ ret.returned
  /\ Len(data) = 2
  /\ ret.transformedData[1] # ret.transformedData[2]
  /\ \E f \in TemplateKeys : ret.transformedData[1][f] # ret.transformedData[2][f]
  /\ Len(hsCodesColumn) = 2
  /\ hsCodesColumn[1].rowIndex = 1

\* C2: in every TargetRow transformData returns, every name of the fixed
\* schema is a key; its value is the source cell, stringified and trimmed,
\* when the field has a reverse-mapping entry and the row has that cell,
\* and the empty string otherwise.
C2_TotalOntoSchema ==
  ret.returned =>
    \A i \in DOMAIN ret.transformedData, k \in DOMAIN targetFieldNames :
      LET field == targetFieldNames[k]
          target == ret.transformedData[i]
          mapped == field \in DOMAIN reverseMapping
                      /\ reverseMapping[field] \in DOMAIN data[i]
      IN  /\ field \in DOMAIN target
          /\ mapped => target[field] = Trim(ToString(data[i][reverseMapping[field]]))
          /\ ~mapped => target[field] = <<>>

\* Returned rows with a field whose cell needed trimming, the same field
\* with its source cell missing from another row, and a field nothing
\* maps to.
C2_Witness ==
  /\ ret.returned
  /\ \E i, j \in DOMAIN data, f, u \in TemplateKeys :
       /\ f \in DOMAIN reverseMapping
       /\ reverseMapping[f] \in DOMAIN data[i]
       /\ ToString(data[i][reverseMapping[f]]) # ret.transformedData[i][f]
       /\ ret.transformedData[i][f] # <<>>
       /\ reverseMapping[f] \notin DOMAIN data[j]
       /\ ret.transformedData[j][f] = <<>>
       /\ u \notin DOMAIN reverseMapping
       /\ ret.transformedData[i][u] = <<>>

\* C3: when the lookup of one row has failed (404, any status >= 400, no
\* response), that row's code is the empty string, every other row keeps
\* the fields of its own source row and the code its own lookup was served,
\* and the request is not failed: the response, once sent, has status 200
\* and carries every row.
C3_LookupFailureIsolated ==
  \A i \in DOMAIN lookupOutcome :
    lookupOutcome[i].ended = "failed" =>
      /\ HSKey \in DOMAIN transformedData[i]
      /\ transformedData[i][HSKey] = <<>>
      /\ \A j \in DOMAIN data \ {i} :
           LET own == MapFields(data[j], reverseMapping) IN
           /\ \A f \in TemplateKeys : transformedData[j][f] = own[f]
           /\ lookupOutcome[j].ended = "ok" =>
                transformedData[j][HSKey] = lookupOutcome[j].served
           /\ lookupOutcome[j].ended = "none" /\ j \notin pending =>
                HSKey \notin DOMAIN transformedData[j]
      /\ pc \in {"awaitLookups", "responded"}
      /\ response.status # 500
      /\ pc = "responded" =>
           /\ response.status = 200
           /\ response.hasResult
           /\ body.data = transformedData
           /\ Len(body.data) = Len(data)

\* The response of a request in which one row's lookup failed and another
\* row's lookup was served a code.
C3_Witness ==
  /\ pc = "responded"
  /\ \E i, j \in DOMAIN lookupOutcome :
       /\ lookupOutcome[i].ended = "failed"
       /\ lookupOutcome[j].ended = "ok"
       /\ lookupOutcome[j].served # <<>>
       /\ body.data[j][HSKey] = lookupOutcome[j].served
       /\ body.data[i][HSKey] = <<>>

\* The product-column identification is over and gave no column: it threw,
\* or it returned null.
NoProductColumn ==
  \/ thrown.product # ""
  \/ /\ pc \in {"awaitLookups", "responded"}
     /\ calls.product = 1
     /\ productColumn = Null

\* C4: when the product-column identification returns null or fails, the
\* request does not fail: no lookup is issued, no row gets the side key, and
\* the response, once sent, has status 200 and carries the result.
C4_IdentificationDegradesGracefully ==
  NoProductColumn =>
    /\ response.status # 500
    /\ pc # "crashed"
    /\ calls.lookups = <<>>
    /\ \A i \in DOMAIN transformedData : HSKey \notin DOMAIN transformedData[i]
    /\ pc = "responded" => response.status = 200 /\ response.hasResult

\* C5 as stated: when the column-mapping inference call throws, the request
\* fails with status 500 and the thrown message in `error`, the call is not
\* repeated, and nothing of the transformation happens.
C5_ThrownMessageVerbatim ==
  thrown.mapping # "" =>
    /\ pc = "responded"
    /\ response.status = 500
    /\ response.error = thrown.mapping
    /\ ~response.hasResult
    /\ calls = [mapping |-> 1, product |-> 0, lookups |-> <<>>]
    /\ ~ret.returned
    /\ transformedData = <<>>

\* C5, amended: when the column-mapping inference call throws, the request
\* fails with status 500 and `error` holds the fixed message of the Error
\* getColumnMapping throws in its place; the call is not repeated, no
\* product-column identification and no lookup is issued, no row is
\* transformed and the response carries no result.
C5_MappingFailureIsFatal ==
  thrown.mapping # "" =>
    /\ pc = "responded"
    /\ response.status = 500
    /\ response.error = ErrMapping
    /\ ~response.hasResult
    /\ calls = [mapping |-> 1, product |-> 0, lookups |-> <<>>]
    /\ ~ret.returned
    /\ transformedData = <<>>

\* The response to a request whose mapping inference threw.
C5_Witness ==
  /\ thrown.mapping \in InferenceErrors
  /\ decoded = "rows"
  /\ pc = "responded"
  /\ response.status = 500

\* The place of a cell in the scan of the dataset: rows in order, the
\* columns of a row in column order.
ScanIndex(i, h) ==
  (i - 1) * Len(HeaderOrder) + (CHOOSE c \in DOMAIN HeaderOrder : HeaderOrder[c] = h)

\* The [row, header] pairs whose header has no entry in the mapping and
\* whose cell is truthy.
UnmappedCells ==
  { p \in (DOMAIN data) \X Headers :
      /\ p[2] \in DOMAIN data[p[1]]
      /\ \A k \in DOMAIN mapping : mapping[k][1] # p[2]
      /\ Truthy(data[p[1]][p[2]]) }

\* The headers that have such a cell, and where each is first seen.
UnmappedHeaders == {p[2] : p \in UnmappedCells}

FirstSeen(h) ==
  LET at == {ScanIndex(p[1], p[2]) : p \in {q \in UnmappedCells : q[2] = h}}
  IN  CHOOSE n \in at : \A o \in at : n <= o

\* How many unmapped cells the scan has met when it is at cell [i, h].
OutputPosition(i, h) ==
  Cardinality({p \in UnmappedCells : ScanIndex(p[1], p[2]) <= ScanIndex(i, h)})

\* C6: the alias table of a request is a function of the header: every
\* header that is absent from the mapping and has a truthy cell has exactly
\* one alias unmappedColumn<N>, N its 1-based position among those headers
\* in the order the scan first meets them (so the aliases are 1..K, no gap,
\* none shared), and every entry that stems from the header carries that
\* alias, in whatever row.
C6_AliasTableStable ==
  ret.returned =>
    /\ DOMAIN columnRenameMap = UnmappedHeaders
    /\ \A h \in UnmappedHeaders :
         columnRenameMap[h] =
           <<"unmappedColumn",
             1 + Cardinality({g \in UnmappedHeaders : FirstSeen(g) < FirstSeen(h)})>>
    /\ {columnRenameMap[h][2] : h \in UnmappedHeaders} = 1 .. Cardinality(UnmappedHeaders)
    /\ \A g, h \in UnmappedHeaders : columnRenameMap[g] = columnRenameMap[h] => g = h
    /\ \A p \in UnmappedCells :
         /\ OutputPosition(p[1], p[2]) \in DOMAIN ret.unmappedColumns
         /\ ret.unmappedColumns[OutputPosition(p[1], p[2])].key = columnRenameMap[p[2]]

\* Two unmapped headers, the second column first seen before the first
\* one, and the header that got alias 1 present in both rows.
C6_Witness ==
  /\ ret.returned
  /\ Len(data) = 2
  /\ UnmappedHeaders = Headers
  /\ columnRenameMap[HeaderOrder[2]] = <<"unmappedColumn", 1>>
  /\ columnRenameMap[HeaderOrder[1]] = <<"unmappedColumn", 2>>
  /\ <<1, HeaderOrder[2]>> \in UnmappedCells
  /\ <<2, HeaderOrder[2]>> \in UnmappedCells
  /\ Len(ret.unmappedColumns) = 3

\* C7: unmappedColumns holds exactly one entry {alias(header): raw value}
\* for every [row, header] pair whose header has no mapping entry and whose
\* cell is truthy, and nothing else; the entries are in row order and,
\* within a row, in column order.
C7_UnmappedEntries ==
  ret.returned =>
    /\ Len(ret.unmappedColumns) = Cardinality(UnmappedCells)
    /\ \A p \in UnmappedCells :
         ret.unmappedColumns[OutputPosition(p[1], p[2])] =
           [key |-> columnRenameMap[p[2]], value |-> data[p[1]][p[2]]]

\* Headers Name and Qty with the mapping {"Name": "Sender full name"}: one
\* unmappedColumn1 entry for the row whose Qty is truthy, none for the row
\* whose Qty is not, and the raw value is not the stringified one.
C7_Witness ==
  /\ ret.returned
  /\ mapping = << <<"Name", "Sender full name">> >>
  /\ Len(data) = 2
  /\ "Qty" \in DOMAIN data[1] /\ ~Truthy(data[1]["Qty"])
  /\ "Qty" \in DOMAIN data[2] /\ Truthy(data[2]["Qty"])
  /\ data[2]["Qty"].t = "num"
  /\ ret.unmappedColumns =
       << [key |-> <<"unmappedColumn", 1>>, value |-> data[2]["Qty"]] >>
  /\ "Name" \in DOMAIN data[2]
  /\ ret.transformedData[2]["Sender full name"] = Trim(ToString(data[2]["Name"]))

\* C8: for every mapping the inference can return, every truthy source cell
\* of every row is in the output: as the value of a target field of the
\* row's TargetRow, or as the value of an unmapped-column entry.
C8_NoCellDiscarded ==
  ret.returned =>
    \A i \in DOMAIN data :
      \A h \in DOMAIN data[i] :
        Truthy(data[i][h]) =>
          \/ \E f \in TemplateKeys :
               /\ f \in DOMAIN reverseMapping
               /\ reverseMapping[f] = h
               /\ ret.transformedData[i][f] = Trim(ToString(data[i][h]))
          \/ \E k \in DOMAIN ret.unmappedColumns :
               /\ h \in DOMAIN columnRenameMap
               /\ ret.unmappedColumns[k] =
                    [key |-> columnRenameMap[h], value |-> data[i][h]]

\* C9: for an empty decoded dataset the request is answered with empty
\* TargetRow and unmapped-column sequences and the full list of target
\* field names, and no lookup call is issued.
C9_EmptyDataset ==
  decoded = "empty" =>
    /\ pc = "responded"
    /\ response.status = 200
    /\ response.hasResult
    /\ body.data = <<>>
    /\ body.unmappedColumns = <<>>
    /\ body.emptyFields = targetFieldNames
    /\ calls.lookups = <<>>

\* C10: when two or more headers map to the same target field, the reverse
\* mapping holds the header that is last in the mapping's iteration order,
\* and every TargetRow takes the field from that header's cell and from no
\* earlier one: it is empty when that cell is missing or empty.
C10_LastWriteWins ==
  ret.returned =>
    \A f \in TemplateKeys :
      LET sources == {k \in DOMAIN mapping : mapping[k][2] = f} IN
      Cardinality(sources) >= 2 =>
        LET last == mapping[CHOOSE k \in sources : \A j \in sources : j <= k][1] IN
        /\ reverseMapping[f] = last
        /\ \A i \in DOMAIN data :
             ret.transformedData[i][f] =
               IF last \in DOMAIN data[i] THEN Trim(ToString(data[i][last])) ELSE <<>>

\* Two headers mapped to one target field, and a row whose earlier header
\* has a truthy cell while the later header's cell is missing: the field is
\* empty.
C10_Witness ==
  /\ ret.returned
  /\ Len(mapping) = 2
  /\ mapping[1][2] = mapping[2][2]
  /\ mapping[1][2] \in TemplateKeys
  /\ \E i \in DOMAIN data :
       /\ mapping[1][1] \in DOMAIN data[i]
       /\ Truthy(data[i][mapping[1][1]])
       /\ mapping[2][1] \notin DOMAIN data[i]
       /\ ret.transformedData[i][mapping[1][2]] = <<>>

\* C11: the per-row lookups are joined before the result is built. When
\* transformData has returned, no lookup is pending, every row whose
\* product column cell is truthy has a completed lookup and exactly one
\* record with its row index, no other row has a record, and the row at
\* each record's rowIndex carries HS_Code equal to the record's code, in
\* whatever order the lookups completed.
C11_LookupsJoined ==
  ret.returned =>
    LET records == ret.hsCodesColumn
        rows == ret.transformedData
        looked == LookupRows IN
    /\ pending = {}
    /\ \A i \in looked : lookupOutcome[i].ended # "none"
    /\ \A i \in DOMAIN data :
         Cardinality({k \in DOMAIN records : records[k].rowIndex = i - 1}) =
           (IF i \in looked THEN 1 ELSE 0)
    /\ \A k \in DOMAIN records :
         LET r == records[k] IN
         /\ r.rowIndex + 1 \in DOMAIN rows
         /\ HSKey \in DOMAIN rows[r.rowIndex + 1]
         /\ rows[r.rowIndex + 1][HSKey] = r.hsCode

\* Two lookups that completed in the reverse of row order with different
\* codes, both joined when transformData returned.
C11_Witness ==
  /\ ret.returned
  /\ Len(ret.hsCodesColumn) = 2
  /\ ret.hsCodesColumn[1].rowIndex = 1
  /\ ret.hsCodesColumn[2].rowIndex = 0
  /\ ret.hsCodesColumn[1].hsCode # ret.hsCodesColumn[2].hsCode
  /\ ret.transformedData[2][HSKey] = ret.hsCodesColumn[1].hsCode
  /\ ret.transformedData[1][HSKey] = ret.hsCodesColumn[2].hsCode

====
